---- MODULE Spec2Model ----
(***************************************************************************)
(* The presence-state bookkeeping of the storpool-service layer            *)
(* (lib/spcharms/service_hook.py): the state cached in the unit's          *)
(* key/value store, add_present_node(), get_present_nodes() and handle().  *)
(*                                                                         *)
(* A Python dict is a TLA+ function whose DOMAIN is the set of its keys.   *)
(* The order in which a dict is iterated is not part of its value: every   *)
(* place where the code iterates over a dict takes the order as a          *)
(* nondeterministic choice.                                                *)
(***************************************************************************)
EXTENDS Integers, Sequences, FiniteSets, TLC

(***************************************************************************)
(* Names used by the program and its unit tests.                           *)
(***************************************************************************)
SP_NODE == "sp-node"
CINDER_LXD_KEY == "storpool-openstack-integration.lxd-name"
CINDER_LXD_NAME == "juju-cinder"
STATE_KEY == "storpool-service.state"
LOCAL_KEY == "-local"
FLAG_CHANGE == "storpool-service.change"
FLAG_CHANGED == "storpool-service.changed"

(***************************************************************************)
(* Bounds of the model.                                                    *)
(***************************************************************************)
\* node names announced locally or reported by peers, besides SP_NODE
Names == {"new-node", "newer-node"}
\* conversation keys of the peer relations; none of them is LOCAL_KEY
ConvKeys == {"peer/1", "peer/2"}
\* relation ids the peer enumerator may return
RelIds == {"peer-rel/1", "peer-rel/42"}
\* longest list of relation ids returned by one relation_ids() call
MaxRels == 2
\* largest number of (name, value) pairs in the data of one attach event
MaxData == 2
\* number of calls made in one behaviour
MaxCalls == 3

(***************************************************************************)
(* Python dict primitives.                                                 *)
(***************************************************************************)
EmptyDict == <<>>

\* d[k] = v
Put(d, k, v) == [x \in (DOMAIN d) \cup {k} |-> IF x = k THEN v ELSE d[x]]

\* del d[k]
Del(d, k) == [x \in (DOMAIN d) \ {k} |-> d[x]]

\* d.get(k, default)
Get(d, k, default) == IF k \in DOMAIN d THEN d[k] ELSE default

\* the sequences without repetition of at most n elements of S
RECURSIVE SeqsUpTo(_, _)
SeqsUpTo(S, n) ==
    IF n = 0 THEN {<<>>}
    ELSE LET shorter == SeqsUpTo(S, n - 1)
         IN  shorter \cup
             {Append(s, x) : <<s, x>> \in
                 {p \in shorter \X S : \A i \in 1..Len(p[1]) : p[1][i] # p[2]}}

\* the orders in which a dict with the key set S may be iterated
RECURSIVE Orders(_)
Orders(S) ==
    IF S = {} THEN {<<>>}
    ELSE UNION {{<<x>> \o s : s \in Orders(S \ {x})} : x \in S}

(***************************************************************************)
(* The unit's key/value store: MockDB.get() and MockDB.set().  A key that  *)
(* is not in the store reads as None.                                      *)
(***************************************************************************)
db_has(db, name) == name \in DOMAIN db

db_set(db, name, value) == Put(db, name, value)

(***************************************************************************)
(* init_state(db)                                                          *)
(***************************************************************************)
\* variant with a slip: the Cinder LXD is left out
init_state_no_lxd(db) == Put(EmptyDict, LOCAL_KEY, Put(EmptyDict, SP_NODE, TRUE))

init_state(db) ==
    LET local_state == Put(EmptyDict, SP_NODE, TRUE)
        with_lxd    == IF db_has(db, CINDER_LXD_KEY)
                       THEN Put(local_state, db[CINDER_LXD_KEY], TRUE)
                       ELSE local_state
    IN  Put(EmptyDict, LOCAL_KEY, with_lxd)

(***************************************************************************)
(* get_state(db): the pair (state, changed)                                *)
(***************************************************************************)
get_state(db) ==
    IF ~db_has(db, STATE_KEY)
    THEN [state |-> init_state(db), changed |-> TRUE]
    ELSE [state |-> db[STATE_KEY], changed |-> FALSE]

\* variant with a slip: the freshly initialized state is stored at once
get_state_call_persist(m) ==
    LET g == get_state(m.db)
    IN  [m |-> IF g.changed
               THEN [db |-> Put(m.db, STATE_KEY, g.state),
                     writes |-> Append(m.writes, g.state)]
               ELSE m,
         state |-> g.state, changed |-> g.changed]

\* a get_state() call as a whole: what it returns and what it leaves of
\* the machine m (the store and the log of the writes to it)
get_state_call(m) ==
    LET g == get_state(m.db)
    IN  [m |-> m, state |-> g.state, changed |-> g.changed]

(***************************************************************************)
(* A machine m is the store together with the log of the values that       *)
(* set_state() has written to it during the current call.                  *)
(***************************************************************************)
Machine(db) == [db |-> db, writes |-> <<>>]

set_state(m, state) ==
    [db |-> db_set(m.db, STATE_KEY, state), writes |-> Append(m.writes, state)]

(***************************************************************************)
(* Variants of update_state() with a slip in them, against which the       *)
(* properties are tried: a key's map replaced instead of updated; the flag *)
(* raised by every call; an absent name taken for a False one; the store   *)
(* written only when this very call modified the state.                    *)
(***************************************************************************)
update_state_replace(m, state, changed, key, name, value) ==
    LET s1 == IF key \notin DOMAIN state THEN Put(state, key, EmptyDict) ELSE state
        c1 == IF key \notin DOMAIN state THEN TRUE ELSE changed
        differs == Get(s1[key], name, ~value) # value
        s2 == IF differs THEN Put(s1, key, Put(EmptyDict, name, value)) ELSE s1
        c2 == IF differs THEN TRUE ELSE c1
    IN  [m |-> IF c2 THEN set_state(m, s2) ELSE m, state |-> s2, changed |-> c2]

update_state_always_dirty(m, state, changed, key, name, value) ==
    LET s1 == IF key \notin DOMAIN state THEN Put(state, key, EmptyDict) ELSE state
        differs == Get(s1[key], name, ~value) # value
        s2 == IF differs THEN Put(s1, key, Put(s1[key], name, value)) ELSE s1
    IN  [m |-> set_state(m, s2), state |-> s2, changed |-> TRUE]

update_state_absent_false(m, state, changed, key, name, value) ==
    LET s1 == IF key \notin DOMAIN state THEN Put(state, key, EmptyDict) ELSE state
        c1 == IF key \notin DOMAIN state THEN TRUE ELSE changed
        differs == Get(s1[key], name, FALSE) # value
        s2 == IF differs THEN Put(s1, key, Put(s1[key], name, value)) ELSE s1
        c2 == IF differs THEN TRUE ELSE c1
    IN  [m |-> IF c2 THEN set_state(m, s2) ELSE m, state |-> s2, changed |-> c2]

update_state_write_on_modify(m, state, changed, key, name, value) ==
    LET s1 == IF key \notin DOMAIN state THEN Put(state, key, EmptyDict) ELSE state
        c1 == IF key \notin DOMAIN state THEN TRUE ELSE changed
        differs == Get(s1[key], name, ~value) # value
        s2 == IF differs THEN Put(s1, key, Put(s1[key], name, value)) ELSE s1
        c2 == IF differs THEN TRUE ELSE c1
    IN  [m |-> IF s2 # state THEN set_state(m, s2) ELSE m, state |-> s2, changed |-> c2]

(***************************************************************************)
(* update_state(db, state, changed, key, name, value): the machine and the *)
(* in-memory state after the call, and the flag it returns.                *)
(***************************************************************************)
update_state(m, state, changed, key, name, value) ==
    LET s1 == IF key \notin DOMAIN state THEN Put(state, key, EmptyDict) ELSE state
        c1 == IF key \notin DOMAIN state THEN TRUE ELSE changed
        differs == Get(s1[key], name, ~value) # value
        s2 == IF differs THEN Put(s1, key, Put(s1[key], name, value)) ELSE s1
        c2 == IF differs THEN TRUE ELSE c1
    IN  [m |-> IF c2 THEN set_state(m, s2) ELSE m, state |-> s2, changed |-> c2]

(***************************************************************************)
(* json.dumps() of a presence map: a JSON object with one member per name, *)
(* whose value is the JSON literal of the flag.                            *)
(***************************************************************************)
json_dumps(arr) == [n \in DOMAIN arr |-> IF arr[n] THEN "true" ELSE "false"]

(***************************************************************************)
(* add_present_node(name, rel_name), with rel_ids the list that            *)
(* hookenv.relation_ids(rel_name) returns when it is called.               *)
(***************************************************************************)
relation_set(rel_id, storpool_service) == <<rel_id, storpool_service>>

\* variants with a slip: the map sent is the one loaded, not the updated
\* one; the map is sent whether or not anything changed
add_present_node_stale(db, name, rel_ids) ==
    LET g  == get_state(db)
        u  == update_state(Machine(db), g.state, g.changed, LOCAL_KEY, name, TRUE)
    IN  [m         |-> u.m,
         loaded    |-> g.state,
         state     |-> u.state,
         changed   |-> u.changed,
         published |-> IF u.changed
                       THEN [i \in 1..Len(rel_ids) |->
                               relation_set(rel_ids[i], json_dumps(g.state[LOCAL_KEY]))]
                       ELSE <<>>]

add_present_node_always(db, name, rel_ids) ==
    LET g  == get_state(db)
        u  == update_state(Machine(db), g.state, g.changed, LOCAL_KEY, name, TRUE)
    IN  [m         |-> u.m,
         loaded    |-> g.state,
         state     |-> u.state,
         changed   |-> u.changed,
         published |-> [i \in 1..Len(rel_ids) |->
                          relation_set(rel_ids[i], json_dumps(u.state[LOCAL_KEY]))]]

add_present_node(db, name, rel_ids) ==
    LET g  == get_state(db)
        u  == update_state(Machine(db), g.state, g.changed, LOCAL_KEY, name, TRUE)
    IN  [m         |-> u.m,
         loaded    |-> g.state,
         state     |-> u.state,
         changed   |-> u.changed,
         published |-> IF u.changed
                       THEN [i \in 1..Len(rel_ids) |->
                               relation_set(rel_ids[i], json_dumps(u.state[LOCAL_KEY]))]
                       ELSE <<>>]

(***************************************************************************)
(* get_present_nodes(), iterating the sources in the order srcs and the    *)
(* entries of the source k in the order items[k].                          *)
(***************************************************************************)
\* variant with a slip: the flag seen last wins (res[key] = value)
RECURSIVE fold_items_last(_, _, _)
fold_items_last(res, arr, names) ==
    IF names = <<>> THEN res
    ELSE fold_items_last(Put(res, Head(names), arr[Head(names)]), arr, Tail(names))

RECURSIVE fold_items(_, _, _)
fold_items(res, arr, names) ==
    IF names = <<>> THEN res
    ELSE LET key   == Head(names)
             value == arr[key]
         IN  fold_items(Put(res, key, value \/ Get(res, key, FALSE)), arr, Tail(names))

RECURSIVE fold_sources(_, _, _, _)
fold_sources(res, state, srcs, items) ==
    IF srcs = <<>> THEN res
    ELSE fold_sources(fold_items(res, state[Head(srcs)], items[Head(srcs)]),
                      state, Tail(srcs), items)

get_present_nodes(db, srcs, items) ==
    fold_sources(EmptyDict, get_state(db).state, srcs, items)

\* the iteration orders of a presence state
SourceOrders(state) == Orders(DOMAIN state)
RECURSIVE ItemOrdersOf(_, _)
ItemOrdersOf(state, keys) ==
    IF keys = {} THEN {EmptyDict}
    ELSE LET k == CHOOSE x \in keys : TRUE
         IN  {Put(f, k, o) : <<f, o>> \in
                 ItemOrdersOf(state, keys \ {k}) \X Orders(DOMAIN state[k])}
ItemOrders(state) == ItemOrdersOf(state, DOMAIN state)

(***************************************************************************)
(* The change tracker of the reactive framework.  helpers.data_changed()   *)
(* compares the value with the snapshot recorded for the data id and       *)
(* records the value as the new snapshot; the tracker holds at most one    *)
(* snapshot.  is_state() and set_state() test and raise a flag.            *)
(***************************************************************************)
data_changed(tracker, state) == [changed |-> tracker # {state}, tracker |-> {state}]

is_state(flags, name) == name \in flags

reactive_set_state(flags, name) == flags \cup {name}

(***************************************************************************)
(* handle(hk, attaching, data): key is hk.conversation().key, data is the  *)
(* sequence of the (name, value) pairs of the reported dict in the order   *)
(* data.items() yields them.                                               *)
(***************************************************************************)
\* variant with a slip: the loop is left after the first pair
attach_loop_first(m, state, changed, key, data) ==
    IF data = <<>> THEN [m |-> m, state |-> state, changed |-> changed]
    ELSE LET u == update_state(m, state, changed, key, Head(data)[1], Head(data)[2])
         IN  [m |-> u.m, state |-> u.state,
              changed |-> IF u.changed THEN TRUE ELSE changed]

\* variant with a slip: the flag is the result of the last update alone
\* (changed = update_state(db, state, False, key, name, value))
RECURSIVE attach_loop_last(_, _, _, _, _)
attach_loop_last(m, state, changed, key, data) ==
    IF data = <<>> THEN [m |-> m, state |-> state, changed |-> changed]
    ELSE LET u == update_state(m, state, FALSE, key, Head(data)[1], Head(data)[2])
         IN  attach_loop_last(u.m, u.state, u.changed, key, Tail(data))

\* variant with a slip: each report replaces the key's map
RECURSIVE attach_loop_replace(_, _, _, _, _)
attach_loop_replace(m, state, changed, key, data) ==
    IF data = <<>> THEN [m |-> m, state |-> state, changed |-> changed]
    ELSE LET u == update_state_replace(m, state, changed, key, Head(data)[1], Head(data)[2])
         IN  attach_loop_replace(u.m, u.state, IF u.changed THEN TRUE ELSE changed,
                                 key, Tail(data))

\* variant with a slip: the reports are recorded under the local key
RECURSIVE attach_loop_local(_, _, _, _, _)
attach_loop_local(m, state, changed, key, data) ==
    IF data = <<>> THEN [m |-> m, state |-> state, changed |-> changed]
    ELSE LET u == update_state(m, state, changed, LOCAL_KEY, Head(data)[1], Head(data)[2])
         IN  attach_loop_local(u.m, u.state, IF u.changed THEN TRUE ELSE changed,
                               key, Tail(data))

RECURSIVE attach_loop(_, _, _, _, _)
attach_loop(m, state, changed, key, data) ==
    IF data = <<>> THEN [m |-> m, state |-> state, changed |-> changed]
    ELSE LET u == update_state(m, state, changed, key, Head(data)[1], Head(data)[2])
         IN  attach_loop(u.m, u.state, IF u.changed THEN TRUE ELSE changed,
                         key, Tail(data))

\* variants with a slip: the store is written whether or not the key was
\* recorded; the store is not written at all
detach_always_write(m, state, changed, key) ==
    IF key \in DOMAIN state
    THEN [m |-> set_state(m, Del(state, key)), state |-> Del(state, key), changed |-> TRUE]
    ELSE [m |-> set_state(m, state), state |-> state, changed |-> changed]

detach_no_persist(m, state, changed, key) ==
    IF key \in DOMAIN state
    THEN [m |-> m, state |-> Del(state, key), changed |-> TRUE]
    ELSE [m |-> m, state |-> state, changed |-> changed]

\* variant with a slip: the store is written before the key is deleted
detach_write_before_del(m, state, changed, key) ==
    IF key \in DOMAIN state
    THEN [m |-> set_state(m, state), state |-> Del(state, key), changed |-> TRUE]
    ELSE [m |-> m, state |-> state, changed |-> changed]

\* variant with a slip: the key's entries are marked absent, the key stays
detach_mark_absent(m, state, changed, key) ==
    IF key \in DOMAIN state
    THEN LET s == Put(state, key, [n \in DOMAIN state[key] |-> FALSE])
         IN  [m |-> set_state(m, s), state |-> s, changed |-> TRUE]
    ELSE [m |-> m, state |-> state, changed |-> changed]

detach(m, state, changed, key) ==
    IF key \in DOMAIN state
    THEN [m |-> set_state(m, Del(state, key)), state |-> Del(state, key), changed |-> TRUE]
    ELSE [m |-> m, state |-> state, changed |-> changed]

\* variant with a slip: the snapshot and the flag are only looked at together
handle_both(db, tracker, flags, key, attaching, data) ==
    LET g  == get_state(db)
        t  == IF attaching
              THEN attach_loop(Machine(db), g.state, g.changed, key, data)
              ELSE detach(Machine(db), g.state, g.changed, key)
        dc == data_changed(tracker, t.state)
        notify == t.changed \/ (dc.changed /\ ~is_state(flags, FLAG_CHANGED))
    IN  [m        |-> t.m,
         loaded   |-> g.state,
         state    |-> t.state,
         changed  |-> t.changed,
         tracker  |-> IF t.changed THEN tracker ELSE dc.tracker,
         notified |-> notify,
         flags    |-> IF notify THEN reactive_set_state(flags, FLAG_CHANGE) ELSE flags]

\* variant with a slip: the flag raised is the flag tested
handle_raise_tested(db, tracker, flags, key, attaching, data) ==
    LET g  == get_state(db)
        t  == IF attaching
              THEN attach_loop(Machine(db), g.state, g.changed, key, data)
              ELSE detach(Machine(db), g.state, g.changed, key)
        dc == data_changed(tracker, t.state)
        notify == t.changed \/ dc.changed \/ ~is_state(flags, FLAG_CHANGED)
    IN  [m        |-> t.m,
         loaded   |-> g.state,
         state    |-> t.state,
         changed  |-> t.changed,
         tracker  |-> IF t.changed THEN tracker ELSE dc.tracker,
         notified |-> notify,
         flags    |-> IF notify THEN reactive_set_state(flags, FLAG_CHANGED) ELSE flags]

handle(db, tracker, flags, key, attaching, data) ==
    LET g  == get_state(db)
        t  == IF attaching
              THEN attach_loop(Machine(db), g.state, g.changed, key, data)
              ELSE detach(Machine(db), g.state, g.changed, key)
        dc == data_changed(tracker, t.state)
        notify == t.changed \/ dc.changed \/ ~is_state(flags, FLAG_CHANGED)
    IN  [m        |-> t.m,
         loaded   |-> g.state,
         state    |-> t.state,
         changed  |-> t.changed,
         tracker  |-> IF t.changed THEN tracker ELSE dc.tracker,
         notified |-> notify,
         flags    |-> IF notify THEN reactive_set_state(flags, FLAG_CHANGE) ELSE flags]

(***************************************************************************)
(* The state of the unit.                                                  *)
(*   db         the unit's key/value store                                 *)
(*   tracker    the snapshot recorded by helpers.data_changed()            *)
(*   flags      the reactive flags that are raised                         *)
(*   announced  the names passed to add_present_node() so far              *)
(*   calls      the number of calls made so far                            *)
(*   last       the last call: its arguments, the store before it (pre),   *)
(*              the state it loaded, the in-memory state it ended with,    *)
(*              the final value of its changed flag, the values it wrote   *)
(*              to the store, what it sent or returned, and for            *)
(*              add_present_node() the list of relation ids that the peer  *)
(*              enumerator holds at the time of the call (rel_ids), for    *)
(*              handle() the tracker's snapshot and the flags before it    *)
(***************************************************************************)
VARIABLES db, tracker, flags, announced, calls, last

vars == <<db, tracker, flags, announced, calls, last>>

NoCall ==
    [op |-> "none", key |-> "", name |-> "", value |-> FALSE, data |-> <<>>,
     changed_in |-> FALSE, pre |-> EmptyDict, loaded |-> EmptyDict,
     state |-> EmptyDict, changed |-> FALSE, writes |-> <<>>, rel_ids |-> <<>>,
     published |-> <<>>, res |-> EmptyDict, notified |-> FALSE,
     pre_tracker |-> {}, pre_flags |-> {}]

\* the lists hookenv.relation_ids() may return
RelIdLists == SeqsUpTo(RelIds, MaxRels)

\* the dicts a peer may report, as the sequences data.items() may yield
DataItems ==
    UNION {{[i \in 1..Len(ns) |-> <<ns[i], vs[i]>>] : vs \in [1..Len(ns) -> BOOLEAN]} :
              ns \in SeqsUpTo(Names, MaxData)}

\* the store of a freshly deployed unit: no presence state yet; the
\* OpenStack integration may have recorded the name of a Cinder LXD
Init ==
    /\ db \in {EmptyDict, Put(EmptyDict, CINDER_LXD_KEY, CINDER_LXD_NAME)}
    /\ tracker = {}
    /\ flags = {}
    /\ announced = {}
    /\ calls = 0
    /\ last = NoCall

AddPresentNode(name, rel_ids) ==
    LET r == add_present_node(db, name, rel_ids)
    IN  /\ calls < MaxCalls
        /\ db' = r.m.db
        /\ announced' = announced \cup {name}
        /\ calls' = calls + 1
        /\ last' = [NoCall EXCEPT !.op = "add_present_node", !.name = name,
                                  !.pre = db, !.loaded = r.loaded,
                                  !.state = r.state, !.changed = r.changed,
                                  !.writes = r.m.writes, !.rel_ids = rel_ids,
                                  !.published = r.published]
        /\ UNCHANGED <<tracker, flags>>

GetPresentNodes(srcs, items) ==
    /\ calls < MaxCalls
    /\ calls' = calls + 1
    /\ last' = [NoCall EXCEPT !.op = "get_present_nodes", !.pre = db,
                              !.loaded = get_state(db).state,
                              !.state = get_state(db).state,
                              !.res = get_present_nodes(db, srcs, items)]
    /\ UNCHANGED <<db, tracker, flags, announced>>

Handle(key, attaching, data) ==
    LET r == handle(db, tracker, flags, key, attaching, data)
    IN  /\ calls < MaxCalls
        /\ db' = r.m.db
        /\ tracker' = r.tracker
        /\ flags' = r.flags
        /\ calls' = calls + 1
        /\ last' = [NoCall EXCEPT !.op = IF attaching THEN "attach" ELSE "detach",
                                  !.key = key, !.data = data,
                                  !.pre = db, !.loaded = r.loaded,
                                  !.state = r.state, !.changed = r.changed,
                                  !.writes = r.m.writes, !.notified = r.notified,
                                  !.pre_tracker = tracker, !.pre_flags = flags]
        /\ UNCHANGED announced

HandleAttach == \E key \in ConvKeys, data \in DataItems : Handle(key, TRUE, data)

HandleDetach == \E key \in ConvKeys : Handle(key, FALSE, <<>>)

Announce == \E name \in Names \cup {SP_NODE}, rel_ids \in RelIdLists :
                AddPresentNode(name, rel_ids)

Present == calls < MaxCalls /\ \E srcs \in SourceOrders(get_state(db).state),
              items \in ItemOrders(get_state(db).state) :
                GetPresentNodes(srcs, items)

Next == Announce \/ Present \/ HandleAttach \/ HandleDetach

Spec == Init /\ [][Next]_vars

(***************************************************************************)
(* The handle() calls next to the other layers of the charm, which raise   *)
(* and clear 'storpool-service.changed' as they like.                      *)
(***************************************************************************)
OtherLayer ==
    /\ flags' = IF FLAG_CHANGED \in flags THEN flags \ {FLAG_CHANGED}
                 ELSE flags \cup {FLAG_CHANGED}
    /\ last' = [NoCall EXCEPT !.op = "other"]
    /\ UNCHANGED <<db, tracker, announced, calls>>

NextNotify == HandleAttach \/ HandleDetach \/ OtherLayer

SpecNotify == Init /\ [][NextNotify]_vars

(***************************************************************************)
(* Only add_present_node() calls, on a store that is empty at the start.   *)
(***************************************************************************)
InitAdd ==
    /\ db = EmptyDict
    /\ tracker = {}
    /\ flags = {}
    /\ announced = {}
    /\ calls = 0
    /\ last = NoCall

NextAdd == Announce

SpecAdd == InitAdd /\ [][NextAdd]_vars

(***************************************************************************)
(* get_present_nodes() on every presence state the store can hold: the     *)
(* local map holds SP_NODE, the Cinder LXD if there is one, and any of the *)
(* announced names, all True, and each conversation key is either absent   *)
(* or holds a non-empty map.                                               *)
(***************************************************************************)
PresenceMaps(names) == UNION {[D -> BOOLEAN] : D \in SUBSET names}

LocalMaps ==
    {[n \in D \cup {SP_NODE} |-> TRUE] : D \in SUBSET (Names \cup {CINDER_LXD_NAME})}

RECURSIVE WithPeers(_, _)
WithPeers(states, keys) ==
    IF keys = {} THEN states
    ELSE LET k == CHOOSE x \in keys : TRUE
             rest == WithPeers(states, keys \ {k})
         IN  rest \cup {Put(st, k, arr) : <<st, arr>> \in
                           rest \X (PresenceMaps(Names) \ {EmptyDict})}

StoredStates == WithPeers({Put(EmptyDict, LOCAL_KEY, arr) : arr \in LocalMaps}, ConvKeys)

InitPresent ==
    /\ db \in {EmptyDict} \cup {Put(EmptyDict, STATE_KEY, st) : st \in StoredStates}
    /\ tracker = {}
    /\ flags = {}
    /\ announced = {}
    /\ calls = 0
    /\ last = NoCall

NextPresent == Present

SpecPresent == InitPresent /\ [][NextPresent]_vars

(***************************************************************************)
(* init_state() and get_state() on their own, as the unit tests call them, *)
(* on every store: with or without the name of a Cinder LXD, with or       *)
(* without a presence state.                                               *)
(***************************************************************************)
InitGet ==
    /\ db \in {lxd @@ st :
                 lxd \in {EmptyDict, Put(EmptyDict, CINDER_LXD_KEY, CINDER_LXD_NAME)},
                 st \in {EmptyDict} \cup {Put(EmptyDict, STATE_KEY, x) : x \in StoredStates}}
    /\ tracker = {}
    /\ flags = {}
    /\ announced = {}
    /\ calls = 0
    /\ last = NoCall

InitState ==
    /\ calls < MaxCalls
    /\ calls' = calls + 1
    /\ last' = [NoCall EXCEPT !.op = "init_state", !.pre = db, !.state = init_state(db)]
    /\ UNCHANGED <<db, tracker, flags, announced>>

GetState ==
    LET r == get_state_call(Machine(db))
    IN  /\ calls < MaxCalls
        /\ calls' = calls + 1
        /\ db' = r.m.db
        /\ last' = [NoCall EXCEPT !.op = "get_state", !.pre = db, !.state = r.state,
                                  !.changed = r.changed, !.writes = r.m.writes]
        /\ UNCHANGED <<tracker, flags, announced>>

NextGet == InitState \/ GetState

SpecGet == InitGet /\ [][NextGet]_vars

(***************************************************************************)
(* update_state() on its own, as the unit tests call it: on an empty       *)
(* store, with any in-memory state, and then once more with the same key,  *)
(* name and value.  last.loaded is the in-memory state before the call.    *)
(***************************************************************************)
TestKeys == {LOCAL_KEY, "peer/1"}

RECURSIVE TestStatesOver(_)
TestStatesOver(keys) ==
    IF keys = {} THEN {EmptyDict}
    ELSE LET k == CHOOSE x \in keys : TRUE
             rest == TestStatesOver(keys \ {k})
         IN  rest \cup {Put(st, k, arr) : <<st, arr>> \in rest \X PresenceMaps(Names)}

TestStates == TestStatesOver(TestKeys)

InitUpdate ==
    /\ db = EmptyDict
    /\ tracker = {}
    /\ flags = {}
    /\ announced = {}
    /\ calls = 0
    /\ last \in {[NoCall EXCEPT !.op = "test", !.state = st] : st \in TestStates}

UpdateStateCall(op, changed, key, name, value) ==
    LET r == update_state(Machine(db), last.state, changed, key, name, value)
    IN  /\ db' = r.m.db
        /\ last' = [NoCall EXCEPT !.op = op, !.key = key, !.name = name,
                                  !.value = value, !.changed_in = changed,
                                  !.pre = db, !.loaded = last.state,
                                  !.state = r.state, !.changed = r.changed,
                                  !.writes = r.m.writes]
        /\ UNCHANGED <<tracker, flags, announced, calls>>

UpdateState ==
    /\ last.op = "test"
    /\ \E changed \in BOOLEAN, key \in TestKeys \cup ConvKeys, name \in Names,
          value \in BOOLEAN :
            UpdateStateCall("update_state", changed, key, name, value)

UpdateStateAgain ==
    /\ last.op = "update_state"
    /\ \E changed \in BOOLEAN :
            UpdateStateCall("update_state_again", changed, last.key, last.name, last.value)

NextUpdate == UpdateState \/ UpdateStateAgain

SpecUpdate == InitUpdate /\ [][NextUpdate]_vars

(***************************************************************************)
(* Vocabulary of the properties.                                           *)
(***************************************************************************)
Persisted(store) == STATE_KEY \in DOMAIN store

\* name is marked present in the local presence map of the state st
LocallyPresent(st, name) ==
    /\ LOCAL_KEY \in DOMAIN st
    /\ name \in DOMAIN st[LOCAL_KEY]
    /\ st[LOCAL_KEY][name]

\* the names that appear in any source's presence map of the state st
NamesIn(st) == UNION {DOMAIN st[k] : k \in DOMAIN st}

\* the OR of the flags of name across the sources of the state st
AnySource(st, name) == \E k \in DOMAIN st : name \in DOMAIN st[k] /\ st[k][name]

\* what add_present_node() is to send when the enumerator returns rel_ids
\* and the local map is arr
Expected(rel_ids, arr) ==
    [i \in 1..Len(rel_ids) |->
        <<rel_ids[i], [n \in DOMAIN arr |-> IF arr[n] THEN "true" ELSE "false"]>>]

(***************************************************************************)
(* C1 (SpecAdd): in every sequence of add_present_node() calls on a store  *)
(* that starts empty, after each call the store holds exactly the presence *)
(* state whose only source is the local one, mapping SP_NODE and every     *)
(* name announced so far to True; and a call that adds a new name sends    *)
(* the JSON of that local map once to each relation id the enumerator      *)
(* holds at the time of the call, in the enumerator's order.               *)
(***************************************************************************)
C1_AddPresentNode ==
    last.op = "add_present_node" =>
        /\ db = Put(EmptyDict, STATE_KEY,
                    Put(EmptyDict, LOCAL_KEY, [n \in announced \cup {SP_NODE} |-> TRUE]))
        /\ ~LocallyPresent(last.loaded, last.name) =>
              last.published = Expected(last.rel_ids, db[STATE_KEY][LOCAL_KEY])

C1_Witness ==
    /\ last.op = "add_present_node"
    /\ calls = 2
    /\ Persisted(last.pre)
    /\ ~LocallyPresent(last.loaded, last.name)
    /\ Cardinality(announced) = 2
    /\ Len(last.published) = 2

(***************************************************************************)
(* C2 as claimed: an add_present_node() call whose name is already marked  *)
(* present in the local map of the state it loaded sends nothing, the      *)
(* freshly initialized state included.                                     *)
(***************************************************************************)
C2_Claimed ==
    (last.op = "add_present_node" /\ LocallyPresent(last.loaded, last.name)) =>
        last.published = <<>>

(***************************************************************************)
(* C2 as amended: add_present_node() sends something only if the load      *)
(* freshly initialized the state or the name was not yet marked present    *)
(* in the local map; a call on a store that holds a presence state in      *)
(* which the name is already marked present sends and writes nothing.      *)
(***************************************************************************)
C2_Amended ==
    last.op = "add_present_node" =>
        /\ last.published # <<>> =>
              (~Persisted(last.pre) \/ ~LocallyPresent(last.loaded, last.name))
        /\ (Persisted(last.pre) /\ LocallyPresent(last.loaded, last.name)) =>
              (last.published = <<>> /\ last.writes = <<>> /\ db = last.pre)

C2_Witness ==
    /\ last.op = "add_present_node"
    /\ Persisted(last.pre)
    /\ LocallyPresent(last.loaded, last.name)
    /\ last.rel_ids # <<>>
    /\ last.published = <<>>

(***************************************************************************)
(* C3 (SpecPresent): get_present_nodes() returns a map whose names are     *)
(* exactly the names that appear in some source's presence map of the      *)
(* loaded state, each with the OR of its flags across the sources, in      *)
(* whatever order the sources and the entries are iterated.                *)
(***************************************************************************)
C3_PresentNodes ==
    last.op = "get_present_nodes" =>
        /\ DOMAIN last.res = NamesIn(last.loaded)
        /\ \A n \in DOMAIN last.res : last.res[n] = AnySource(last.loaded, n)

C3_Witness ==
    /\ last.op = "get_present_nodes"
    /\ \E n \in DOMAIN last.res :
          /\ last.res[n]
          /\ \E k \in DOMAIN last.loaded :
                n \in DOMAIN last.loaded[k] /\ ~last.loaded[k][n]
    /\ \E n \in DOMAIN last.res : ~last.res[n]

(***************************************************************************)
(* C4: whenever the store holds a presence state, that state has the local *)
(* source key and its map marks SP_NODE present.                           *)
(***************************************************************************)
C4_LocalEntry ==
    Persisted(db) => LocallyPresent(db[STATE_KEY], SP_NODE)

C4_Witness ==
    /\ Persisted(db)
    /\ calls = MaxCalls
    /\ last.op = "detach"
    /\ last.writes # <<>>
    /\ announced # {}

(***************************************************************************)
(* C5 as claimed: a detach event for a conversation key that is not a      *)
(* source key of the loaded state returns False and leaves the store as it *)
(* was, the empty store included.                                          *)
(***************************************************************************)
C5_Claimed ==
    (last.op = "detach" /\ last.key \notin DOMAIN last.loaded) =>
        (~last.changed /\ last.writes = <<>> /\ db = last.pre)

(***************************************************************************)
(* C5 as amended: a detach event for a conversation key that is not a      *)
(* source key of the loaded state writes nothing and leaves the store as   *)
(* it was; it returns False when the store holds a presence state and True *)
(* when it holds none.                                                     *)
(***************************************************************************)
C5_Amended ==
    (last.op = "detach" /\ last.key \notin DOMAIN last.loaded) =>
        /\ last.writes = <<>>
        /\ db = last.pre
        /\ last.changed = ~Persisted(last.pre)

C5_Witness ==
    /\ last.op = "detach"
    /\ last.key \notin DOMAIN last.loaded
    /\ Persisted(last.pre)
    /\ DOMAIN last.loaded # {LOCAL_KEY}
    /\ ~last.changed

(***************************************************************************)
(* C6: a detach event for a conversation key that is a source key of the   *)
(* loaded state returns True and writes the store; afterwards the stored   *)
(* state has no entry for that key and has every other source key with     *)
(* the map it had.                                                         *)
(***************************************************************************)
C6_DetachRecorded ==
    (last.op = "detach" /\ last.key \in DOMAIN last.loaded) =>
        /\ last.changed
        /\ last.writes # <<>>
        /\ Persisted(db)
        /\ DOMAIN db[STATE_KEY] = DOMAIN last.loaded \ {last.key}
        /\ \A k \in DOMAIN db[STATE_KEY] : db[STATE_KEY][k] = last.loaded[k]

C6_Witness ==
    /\ last.op = "detach"
    /\ last.key \in DOMAIN last.loaded
    /\ Cardinality(DOMAIN last.loaded) = 3
    /\ Persisted(db)
    /\ Cardinality(DOMAIN db[STATE_KEY]) = 2

(***************************************************************************)
(* C7: after an attach event with non-empty data for the conversation key  *)
(* k the stored state maps k to a map that holds every reported name with  *)
(* its reported flag, every other source key has the map it had in the     *)
(* loaded state, and get_present_nodes() returns True for every name       *)
(* reported True.                                                          *)
(***************************************************************************)
C7_Attach ==
    (last.op = "attach" /\ last.data # <<>>) =>
        /\ Persisted(db)
        /\ DOMAIN db[STATE_KEY] = DOMAIN last.loaded \cup {last.key}
        /\ \A i \in 1..Len(last.data) :
              /\ last.data[i][1] \in DOMAIN db[STATE_KEY][last.key]
              /\ db[STATE_KEY][last.key][last.data[i][1]] = last.data[i][2]
        /\ \A k \in DOMAIN last.loaded \ {last.key} :
              db[STATE_KEY][k] = last.loaded[k]
        /\ \A srcs \in SourceOrders(db[STATE_KEY]), items \in ItemOrders(db[STATE_KEY]) :
              \A i \in 1..Len(last.data) :
                  last.data[i][2] =>
                      /\ last.data[i][1] \in DOMAIN get_present_nodes(db, srcs, items)
                      /\ get_present_nodes(db, srcs, items)[last.data[i][1]]

C7_Witness ==
    /\ last.op = "attach"
    /\ Len(last.data) = 2
    /\ last.data[1][2] /\ ~last.data[2][2]
    /\ last.key \in DOMAIN last.loaded
    /\ last.data[1][1] \in DOMAIN last.loaded[last.key]
    /\ ~last.loaded[last.key][last.data[1][1]]
    /\ Cardinality(DOMAIN last.loaded) = 3

(***************************************************************************)
(* C8 (SpecUpdate): a second update_state() call with the same key, name   *)
(* and value and with the incoming flag False returns False, leaves the    *)
(* in-memory state as it was and writes nothing to the store.              *)
(***************************************************************************)
C8_Idempotent ==
    (last.op = "update_state_again" /\ ~last.changed_in) =>
        (~last.changed /\ last.state = last.loaded /\ last.writes = <<>> /\ db = last.pre)

C8_Witness ==
    /\ last.op = "update_state_again"
    /\ ~last.changed_in
    /\ Persisted(last.pre)
    /\ ~last.value
    /\ ~last.changed

(***************************************************************************)
(* C9 (SpecUpdate): update_state() with a key that is absent from the      *)
(* state, or a name that is absent from the key's map, or a name recorded  *)
(* with the other flag, returns True and leaves the state as it was        *)
(* except that the key's map holds exactly the given flag for the name.    *)
(***************************************************************************)
C9_Records ==
    LET before == IF last.key \in DOMAIN last.loaded THEN last.loaded[last.key]
                  ELSE EmptyDict
    IN  (/\ last.op \in {"update_state", "update_state_again"}
         /\ \/ last.name \notin DOMAIN before
            \/ before[last.name] # last.value) =>
            /\ last.changed
            /\ last.state = Put(last.loaded, last.key, Put(before, last.name, last.value))

C9_Witness ==
    /\ last.op = "update_state"
    /\ ~last.changed_in
    /\ ~last.value
    /\ last.key \in DOMAIN last.loaded
    /\ last.name \notin DOMAIN last.loaded[last.key]
    /\ last.changed

(***************************************************************************)
(* C10 (SpecUpdate): update_state() returns the incoming flag OR 'this     *)
(* call modified the state'; it writes the store exactly when it returns   *)
(* True, once, and what it writes is the whole in-memory state after the   *)
(* update.                                                                 *)
(***************************************************************************)
C10_Writes ==
    last.op \in {"update_state", "update_state_again"} =>
        /\ last.changed = (last.changed_in \/ last.state # last.loaded)
        /\ last.changed => (last.writes = <<last.state>>
                            /\ db = Put(last.pre, STATE_KEY, last.state))
        /\ ~last.changed => (last.writes = <<>> /\ db = last.pre)

C10_Witness ==
    /\ last.op = "update_state"
    /\ last.changed_in
    /\ last.state = last.loaded
    /\ last.writes = <<last.state>>

\* the state a unit with the store `store` starts from
FreshState(store) ==
    Put(EmptyDict, LOCAL_KEY,
        [n \in {SP_NODE} \cup (IF CINDER_LXD_KEY \in DOMAIN store
                               THEN {store[CINDER_LXD_KEY]} ELSE {}) |-> TRUE])

(***************************************************************************)
(* C11 (SpecGet): get_state() returns the freshly initialized state and    *)
(* True when the store holds no presence state, the stored state and False *)
(* when it holds one, and never writes the store; so every one of a series *)
(* of get_state() calls on a store without presence state returns True.    *)
(***************************************************************************)
C11_GetState ==
    last.op = "get_state" =>
        /\ last.writes = <<>>
        /\ db = last.pre
        /\ ~Persisted(last.pre) => (last.changed /\ last.state = FreshState(last.pre))
        /\ Persisted(last.pre) => (~last.changed /\ last.state = last.pre[STATE_KEY])

C11_Witness ==
    /\ last.op = "get_state"
    /\ calls = MaxCalls
    /\ ~Persisted(last.pre)
    /\ CINDER_LXD_KEY \in DOMAIN last.pre
    /\ last.changed

(***************************************************************************)
(* C12 (SpecGet): init_state() returns a state whose only source key is    *)
(* the local one; its map is {SP_NODE: True} when the store names no       *)
(* Cinder LXD and {SP_NODE: True, that name: True} when it names one; the  *)
(* store is left as it was.                                                *)
(***************************************************************************)
C12_InitState ==
    last.op = "init_state" =>
        /\ DOMAIN last.state = {LOCAL_KEY}
        /\ DOMAIN last.state[LOCAL_KEY] =
              IF CINDER_LXD_KEY \in DOMAIN last.pre
              THEN {SP_NODE, last.pre[CINDER_LXD_KEY]} ELSE {SP_NODE}
        /\ \A n \in DOMAIN last.state[LOCAL_KEY] : last.state[LOCAL_KEY][n]
        /\ db = last.pre

C12_Witness ==
    /\ last.op = "init_state"
    /\ CINDER_LXD_KEY \in DOMAIN last.pre
    /\ Cardinality(DOMAIN last.state[LOCAL_KEY]) = 2

(***************************************************************************)
(* C13: an attach event returns True exactly when the load freshly         *)
(* initialized the state or some reported pair modified the state, at      *)
(* whatever position of data.items() that pair comes; a later pair that    *)
(* modifies nothing does not lower the flag.                               *)
(***************************************************************************)
C13_Sticky ==
    last.op = "attach" =>
        last.changed = (~Persisted(last.pre) \/ last.state # last.loaded)

C13_Witness ==
    /\ last.op = "attach"
    /\ Persisted(last.pre)
    /\ Len(last.data) = 2
    /\ last.key \in DOMAIN last.loaded
    /\ last.data[1][1] \notin DOMAIN last.loaded[last.key]
    /\ last.data[2][1] \in DOMAIN last.loaded[last.key]
    /\ last.loaded[last.key][last.data[2][1]] = last.data[2][2]
    /\ last.changed

(***************************************************************************)
(* C14 (SpecNotify): a handle() call raises 'storpool-service.change'      *)
(* whenever its changed flag is True, or the state it ends with is not the *)
(* snapshot the tracker holds, or 'storpool-service.changed' is not        *)
(* raised; so every call that returns True raises it.                      *)
(***************************************************************************)
C14_Notify ==
    (/\ last.op \in {"attach", "detach"}
     /\ \/ last.changed
        \/ last.pre_tracker # {last.state}
        \/ FLAG_CHANGED \notin last.pre_flags) =>
        (last.notified /\ FLAG_CHANGE \in flags)

C14_Witness ==
    /\ last.op \in {"attach", "detach"}
    /\ ~last.changed
    /\ last.pre_tracker # {last.state}
    /\ FLAG_CHANGED \in last.pre_flags
    /\ last.notified
    /\ FLAG_CHANGE \in flags

(***************************************************************************)
(* C15 as claimed: whenever a handle() call returns True, the store holds  *)
(* a presence state, equal to the in-memory state the call ended with.     *)
(***************************************************************************)
C15_Claimed ==
    (last.op \in {"attach", "detach"} /\ last.changed) =>
        (Persisted(db) /\ db[STATE_KEY] = last.state)

(***************************************************************************)
(* C15 as amended: whenever a handle() call returns True, either the store *)
(* holds a presence state equal to the in-memory state the call ended      *)
(* with, or the store held no presence state before the call, the call     *)
(* modified nothing and wrote nothing, and the store still holds none (an  *)
(* attach event with empty data or a detach event, on a store without      *)
(* presence state).                                                        *)
(***************************************************************************)
C15_Amended ==
    (last.op \in {"attach", "detach"} /\ last.changed) =>
        \/ Persisted(db) /\ db[STATE_KEY] = last.state
        \/ /\ ~Persisted(last.pre)
           /\ last.state = last.loaded
           /\ last.writes = <<>>
           /\ db = last.pre
           /\ (last.op = "attach" => last.data = <<>>)

C15_Witness ==
    /\ last.op = "detach"
    /\ last.changed
    /\ Persisted(last.pre)
    /\ announced # {}
    /\ Persisted(db)
    /\ db[STATE_KEY] = last.state
    /\ db # last.pre

(***************************************************************************)
(* C16: the flag handle() raises is not the flag it tests, and no call of  *)
(* this module raises the flag it tests; so, with no other layer raising   *)
(* 'storpool-service.changed', every handle() call raises                  *)
(* 'storpool-service.change', also a call that changes nothing and ends    *)
(* with the state the tracker holds as its snapshot.                       *)
(***************************************************************************)
C16_AlwaysNotifies ==
    /\ FLAG_CHANGE # FLAG_CHANGED
    /\ FLAG_CHANGED \notin flags
    /\ last.op \in {"attach", "detach"} => (last.notified /\ FLAG_CHANGE \in flags)

C16_Witness ==
    /\ last.op \in {"attach", "detach"}
    /\ ~last.changed
    /\ last.pre_tracker = {last.state}
    /\ FLAG_CHANGE \in last.pre_flags
    /\ last.notified

(***************************************************************************)
(* C17: once add_present_node(name, ...) has completed, the stored local   *)
(* map marks the name present in every later state, whatever               *)
(* add_present_node() and handle() calls follow, and every                 *)
(* get_present_nodes() call returns True for the name.                     *)
(***************************************************************************)
C17_LocalMonotone ==
    \A n \in announced :
        /\ Persisted(db)
        /\ LocallyPresent(db[STATE_KEY], n)
        /\ last.op = "get_present_nodes" => (n \in DOMAIN last.res /\ last.res[n])

C17_Witness ==
    /\ last.op = "get_present_nodes"
    /\ \E n \in announced \cap Names, k \in ConvKeys :
          /\ k \in DOMAIN db[STATE_KEY]
          /\ n \in DOMAIN db[STATE_KEY][k]
          /\ ~db[STATE_KEY][k][n]
          /\ last.res[n]

\* the sources of the state st other than the source key
Remaining(st, key) == [k \in DOMAIN st \ {key} |-> st[k]]

(***************************************************************************)
(* C18: after a detach event for the conversation key k, whatever order    *)
(* the sources and the entries are iterated in, get_present_nodes()        *)
(* returns exactly the names recorded by the sources other than k in the   *)
(* loaded state, each with the OR of the flags of those sources; a name    *)
(* that only k recorded is absent.                                         *)
(***************************************************************************)
C18_DetachView ==
    last.op = "detach" =>
        LET rest == Remaining(last.loaded, last.key)
            st   == get_state(db).state
        IN  \A srcs \in SourceOrders(st), items \in ItemOrders(st) :
                LET res == get_present_nodes(db, srcs, items)
                IN  /\ DOMAIN res = NamesIn(rest)
                    /\ \A n \in DOMAIN res : res[n] = AnySource(rest, n)

C18_Witness ==
    /\ last.op = "detach"
    /\ last.key \in DOMAIN last.loaded
    /\ LET rest == Remaining(last.loaded, last.key)
           mine == last.loaded[last.key]
       IN  /\ \E n \in DOMAIN mine : n \notin NamesIn(rest)
           /\ \E n \in DOMAIN mine :
                 mine[n] /\ n \in NamesIn(rest) /\ ~AnySource(rest, n)
    /\ db[STATE_KEY] = Remaining(last.loaded, last.key)

\* the names recorded under the source key in the store
RecordedUnder(store, key) ==
    IF Persisted(store) /\ key \in DOMAIN store[STATE_KEY]
    THEN DOMAIN store[STATE_KEY][key] ELSE {}

\* the names of the reported data
Reported(data) == {data[i][1] : i \in 1..Len(data)}

(***************************************************************************)
(* C19: an attach event for the conversation key k leaves every name that  *)
(* is recorded under k and is not in the reported data in place with the   *)
(* flag it had; a step that is not a detach event for k never removes a    *)
(* name from the names recorded under k; an attach event with empty data   *)
(* creates no entry for k and writes nothing to the store.                 *)
(***************************************************************************)
C19_Merge ==
    [][/\ \A k \in ConvKeys :
             \/ last'.op = "detach" /\ last'.key = k
             \/ RecordedUnder(db, k) \subseteq RecordedUnder(db', k)
       /\ last'.op = "attach" =>
             /\ \A n \in RecordedUnder(db, last'.key) \ Reported(last'.data) :
                   /\ n \in RecordedUnder(db', last'.key)
                   /\ db'[STATE_KEY][last'.key][n] = db[STATE_KEY][last'.key][n]
                   /\ last'.state[last'.key][n] = db[STATE_KEY][last'.key][n]
             /\ last'.data = <<>> =>
                   /\ last'.writes = <<>>
                   /\ db' = db
                   /\ last'.state = last'.loaded
                   /\ RecordedUnder(db', last'.key) = RecordedUnder(db, last'.key)
                   /\ (last'.key \in DOMAIN last'.state) =
                          (Persisted(db) /\ last'.key \in DOMAIN db[STATE_KEY])
      ]_vars

C19_Witness ==
    /\ last.op = "attach"
    /\ last.writes # <<>>
    /\ last.key \in DOMAIN last.loaded
    /\ \E n \in DOMAIN last.loaded[last.key] \ Reported(last.data) :
          /\ n \in RecordedUnder(db, last.key)
          /\ db[STATE_KEY][last.key][n] = last.loaded[last.key][n]
    /\ Reported(last.data) \ DOMAIN last.loaded[last.key] # {}

====
